---------------------------- MODULE Spec2Model ----------------------------
(***************************************************************************)
(* A model of two components of the Spotify-clone repository:              *)
(*                                                                         *)
(*   - the chat store (src/unnamed/part_000): a zustand store wrapping one *)
(*     shared socket.io client and two HTTP GETs;                          *)
(*   - the statistics controller                                           *)
(*     (src/backend/src/controller/stat.controller.js): getStats.          *)
(*                                                                         *)
(* JavaScript runs each callback to completion, so every synchronous       *)
(* function body, socket listener and await-continuation is one action.    *)
(***************************************************************************)
EXTENDS Integers, Sequences, FiniteSets, TLC

(***************************************************************************)
(* Bounds of the model.                                                    *)
(***************************************************************************)
MaxRegistrations == 2   \* initSocket calls that take the connecting branch
MaxMsgs == 3            \* length of store.messages
MaxSends == 1           \* send_message emissions
MaxArr == 2             \* length of an array carried by an inbound event
MaxInFlight == 2        \* HTTP requests awaiting their response
MaxDocs == 2            \* documents per collection
MaxUserDocs == 1        \* documents in the User collection

(***************************************************************************)
(* Value domains.                                                          *)
(***************************************************************************)
UserIds == {"u1", "u2"}
ActivityTexts == {"Idle", "Playing"}
Msgs == {"m1", "m2"}
Contents == {"hi"}
Null == "null"
Undefined == "undefined"
Rosters == {<<>>, <<"u1", "u2">>}
ServerMessages == {"Unauthorized", Undefined}

Events ==
  {"users_online", "activities", "user_connected", "user_disconnected",
   "receive_message", "message_sent", "activity_updated"}

EmptyMap == [u \in {} |-> "Idle"]

RECURSIVE SeqsUpTo(_, _)
SeqsUpTo(S, n) ==
  IF n = 0 THEN {<<>>}
  ELSE LET shorter == SeqsUpTo(S, n - 1)
       IN shorter \cup {Append(s, x) : s \in {t \in shorter : Len(t) = n - 1}, x \in S}

VARIABLES
  store,      \* the zustand state object (part_000 lines 33-41)
  auth,       \* socket.auth
  conn,       \* the socket.io client's connection state
  listeners,  \* number of listeners registered on the socket, per event
  emitted,    \* socket.emit calls, in order
  inflight,   \* axios GETs awaiting their response, in issue order
  initCalls,  \* the calls made, in order, by the initSocket that connected last
  requested,  \* the userId passed to the fetchMessages called last
  last,       \* the step taken last: <<operation, outcome>>, or
              \* <<"deliver", event, payload>>
  songs, albums, userDocs,   \* the document store
  reads,      \* getStats: the four reads handed to Promise.all
  pc,         \* getStats: position of the handler
  resCalls,   \* getStats: res.status(..).json(..) calls, in order
  nextCalls   \* getStats: next(error) calls, in order

chatVars == <<store, auth, conn, listeners, emitted, inflight, initCalls, requested, last>>
statsVars == <<songs, albums, userDocs, reads, pc, resCalls, nextCalls>>
vars == <<store, auth, conn, listeners, emitted, inflight, initCalls, requested, last,
          songs, albums, userDocs, reads, pc, resCalls, nextCalls>>

(***************************************************************************)
(* The chat store.                                                         *)
(***************************************************************************)

\* zustand's set(partial): a shallow merge of partial into the state
Set(state, partial) ==
  [f \in DOMAIN state |-> IF f \in DOMAIN partial THEN partial[f] ELSE state[f]]

\* new Set(array)
SetOf(arr) == {arr[i] : i \in DOMAIN arr}

\* map.set(key, value) on a copy
MapSet(map, key, value) ==
  [k \in DOMAIN map \cup {key} |-> IF k = key THEN value ELSE map[k]]

\* new Map(entries): entries are inserted in order, a later one overwriting
RECURSIVE MapOf(_)
MapOf(entries) ==
  IF entries = <<>> THEN EmptyMap
  ELSE LET n == Len(entries)
       IN MapSet(MapOf(SubSeq(entries, 1, n - 1)), entries[n][1], entries[n][2])

StoreInit ==
  [users |-> <<>>, isLoading |-> FALSE, error |-> Null, socket |-> "socket",
   isConnected |-> FALSE, onlineUsers |-> {}, userActivities |-> EmptyMap,
   messages |-> <<>>, selectedUser |-> Null]

\* ---- the seven listeners registered by initSocket ----
OnUsersOnline(state, users) == [onlineUsers |-> SetOf(users)]

OnActivities(state, activities) == [userActivities |-> MapOf(activities)]

OnUserConnected(state, userId) ==
  [onlineUsers |-> state.onlineUsers \cup {userId}]

\* faulty variant: the listener returns the set it copied, undeleted
OnUserDisconnectedKept(state, userId) == [onlineUsers |-> state.onlineUsers]

OnUserDisconnected(state, userId) ==
  [onlineUsers |-> state.onlineUsers \ {userId}]

OnReceiveMessage(state, message) ==
  [messages |-> Append(state.messages, message)]

OnMessageSent(state, message) ==
  [messages |-> Append(state.messages, message)]

\* faulty variant: the listener starts from an empty Map, not a copy
OnActivityUpdatedFresh(state, update) ==
  [userActivities |-> MapSet(EmptyMap, update.userId, update.activity)]

OnActivityUpdated(state, update) ==
  [userActivities |-> MapSet(state.userActivities, update.userId, update.activity)]

Listener(ev, state, payload) ==
  CASE ev = "users_online" -> OnUsersOnline(state, payload)
    [] ev = "activities" -> OnActivities(state, payload)
    [] ev = "user_connected" -> OnUserConnected(state, payload)
    [] ev = "user_disconnected" -> OnUserDisconnected(state, payload)
    [] ev = "receive_message" -> OnReceiveMessage(state, payload)
    [] ev = "message_sent" -> OnMessageSent(state, payload)
    [] ev = "activity_updated" -> OnActivityUpdated(state, payload)

\* the socket calls every listener registered for the event, in order
RECURSIVE Dispatch(_, _, _, _)
Dispatch(ev, state, payload, n) ==
  IF n = 0 THEN state
  ELSE Dispatch(ev, Set(state, Listener(ev, state, payload)), payload, n - 1)

\* the arrays an inbound event may carry
UserIdArrays == SeqsUpTo(UserIds, MaxArr)
ActivityPairArrays == SeqsUpTo(UserIds \X ActivityTexts, MaxArr)

Payloads(ev) ==
  CASE ev = "users_online" -> UserIdArrays
    [] ev = "activities" -> ActivityPairArrays
    [] ev \in {"user_connected", "user_disconnected"} -> UserIds
    [] ev \in {"receive_message", "message_sent"} -> Msgs
    [] ev = "activity_updated" -> [userId : UserIds, activity : ActivityTexts]

\* ---- the socket.io client ----
SocketInit == "closed"

\* socket.connect()
SocketConnect(c) == IF c \in {"closed", "lost"} THEN "connecting" ELSE c

\* faulty variant: the connection is left as it is
SocketDisconnectKeeps(c) == c

\* socket.disconnect()
SocketDisconnect(c) == "closed"

\* socket.on(event, fn), for each of the seven events
RegisterListeners(ls) == [e \in Events |-> ls[e] + 1]

\* faulty variant: initSocket without its isConnected guard
ShouldInitAlways(state) == TRUE

\* the guard of initSocket
ShouldInit(state) == ~state.isConnected

\* the guard of disconnectSocket
ShouldDisconnect(state) == state.isConnected

\* the listener registrations of initSocket, in source order
ListenerOrder ==
  <<"users_online", "activities", "user_connected", "user_disconnected",
    "receive_message", "message_sent", "activity_updated">>

Call(name, event, data) == [call |-> name, event |-> event, data |-> data]

\* faulty variant: isConnected is set before the listeners are registered
InitSocketCallsSetFirst(userId) ==
  <<Call("auth", Null, userId), Call("connect", Null, Null),
    Call("emit", "user_connected", userId), Call("set", Null, "isConnected")>>
  \o [i \in 1..Len(ListenerOrder) |-> Call("on", ListenerOrder[i], Null)]

\* the statements of initSocket's body, in order: socket.auth = { userId },
\* socket.connect(), socket.emit, seven socket.on, set({ isConnected: true })
InitSocketCalls(userId) ==
  <<Call("auth", Null, userId), Call("connect", Null, Null),
    Call("emit", "user_connected", userId)>>
  \o [i \in 1..Len(ListenerOrder) |-> Call("on", ListenerOrder[i], Null)]
  \o <<Call("set", Null, "isConnected")>>

initSocket(userId) ==
  /\ IF ShouldInit(store)
       THEN /\ listeners["users_online"] < MaxRegistrations
            /\ auth' = userId
            /\ conn' = SocketConnect(conn)
            /\ emitted' = Append(emitted, <<"user_connected", <<userId>> >>)
            /\ listeners' = RegisterListeners(listeners)
            /\ store' = Set(store, [isConnected |-> TRUE])
            /\ initCalls' = InitSocketCalls(userId)
            /\ last' = <<"initSocket", "connect">>
       ELSE /\ UNCHANGED <<auth, conn, emitted, listeners, store, initCalls>>
            /\ last' = <<"initSocket", "noop">>
  /\ UNCHANGED <<inflight, requested, statsVars>>

\* faulty variant: disconnecting also empties the message list
DisconnectUpdateClearing == [isConnected |-> FALSE, messages |-> <<>>]

\* faulty variant: disconnecting also drops the store's socket handle
DisconnectUpdateDropping == [isConnected |-> FALSE, socket |-> Null]

\* disconnectSocket: the object passed to set
DisconnectUpdate == [isConnected |-> FALSE]

disconnectSocket ==
  /\ IF ShouldDisconnect(store)
       THEN /\ conn' = SocketDisconnect(conn)
            /\ store' = Set(store, DisconnectUpdate)
            /\ last' = <<"disconnectSocket", "disconnect">>
       ELSE /\ UNCHANGED <<conn, store>>
            /\ last' = <<"disconnectSocket", "noop">>
  /\ UNCHANGED <<auth, emitted, listeners, inflight, initCalls, requested, statsVars>>

\* ---- what the transport does on its own ----
ConnectEstablished ==
  /\ conn = "connecting"
  /\ conn' = "open"
  /\ last' = <<"transport", "connect">>
  /\ UNCHANGED <<store, auth, listeners, emitted, inflight, initCalls, requested, statsVars>>

\* the server refuses the connection or rejects the auth; no connect_error
\* listener is registered
ConnectError ==
  /\ conn = "connecting"
  /\ conn' = "lost"
  /\ last' = <<"transport", "connect_error">>
  /\ UNCHANGED <<store, auth, listeners, emitted, inflight, initCalls, requested, statsVars>>

\* the connection drops; no disconnect listener is registered
ConnectionLost ==
  /\ conn = "open"
  /\ conn' = "lost"
  /\ last' = <<"transport", "disconnect">>
  /\ UNCHANGED <<store, auth, listeners, emitted, inflight, initCalls, requested, statsVars>>

\* the client's automatic reconnection (not disabled by the io() options)
Reconnect ==
  /\ conn = "lost"
  /\ conn' = "connecting"
  /\ last' = <<"transport", "reconnect_attempt">>
  /\ UNCHANGED <<store, auth, listeners, emitted, inflight, initCalls, requested, statsVars>>

\* an inbound event reaches the client and its listeners run
Deliver(ev, payload) ==
  /\ conn = "open"
  /\ ev \in {"receive_message", "message_sent"} =>
       Len(store.messages) + listeners[ev] <= MaxMsgs
  /\ last' = <<"deliver", ev, payload>>
  /\ store' = Dispatch(ev, store, payload, listeners[ev])
  /\ UNCHANGED <<auth, conn, listeners, emitted, inflight, initCalls, requested, statsVars>>

setSelectedUser(user) ==
  /\ store' = Set(store, [selectedUser |-> user])
  /\ last' = <<"setSelectedUser", "set">>
  /\ UNCHANGED <<auth, conn, listeners, emitted, inflight, initCalls, requested, statsVars>>

\* faulty variant: receiverId and senderId change places
SendEmissionSwapped(receiverId, senderId, content) ==
  <<"send_message", <<senderId, receiverId, content>> >>

\* socket.emit("send_message", { receiverId, senderId, content })
SendEmission(receiverId, senderId, content) ==
  <<"send_message", <<receiverId, senderId, content>> >>

\* sendMessage: get().socket is read, and nothing is emitted when it is falsy
sendMessage(receiverId, senderId, content) ==
  /\ IF store.socket = Null
       THEN /\ UNCHANGED emitted
            /\ last' = <<"sendMessage", "noop">>
       ELSE /\ Len(SelectSeq(emitted, LAMBDA e : e[1] = "send_message")) < MaxSends
            /\ emitted' = Append(emitted, SendEmission(receiverId, senderId, content))
            /\ last' = <<"sendMessage", "emit">>
  /\ UNCHANGED <<store, auth, conn, listeners, inflight, initCalls, requested, statsVars>>

\* ---- the two HTTP fetches ----
\* what the server holds for GET /users/messages/:userId
History(userId) == IF userId = "u1" THEN <<"m1">> ELSE <<"m2">>

\* the ways an axios GET settles: fulfilled with response.data; rejected with
\* an error that carries the server's response (4xx, 5xx), whose body may or
\* may not have a message; rejected with an error that carries no response
\* (network error, timeout)
Settlements(req) ==
  {[kind |-> "ok", data |-> d, message |-> Undefined, serverMessage |-> Undefined] :
      d \in IF req.op = "fetchUsers" THEN Rosters ELSE {History(req.userId)}}
  \cup {[kind |-> "http_error", data |-> <<>>,
         message |-> "Request failed with status code 401", serverMessage |-> m] :
           m \in ServerMessages}
  \cup {[kind |-> "network_error", data |-> <<>>,
         message |-> "Network Error", serverMessage |-> Undefined]}

\* the store field a fetch writes on success
TargetField(op) == IF op = "fetchUsers" THEN "users" ELSE "messages"

\* the first statement of fetchUsers / fetchMessages
FetchStart(state) == Set(state, [isLoading |-> TRUE, error |-> Null])

\* the try block after the await: set({ users: response.data })
FetchTry(state, op, result) == Set(state, [f \in {TargetField(op)} |-> result.data])

\* the catch block: set({ error: error.response.data.message }); reading
\* .data of an undefined error.response throws a TypeError
CatchThrows(result) == result.kind = "network_error"

FetchCatch(state, result) ==
  IF CatchThrows(result) THEN state ELSE Set(state, [error |-> result.serverMessage])

\* faulty variant: the loading flag is cleared in the try block only
FetchFinallyMissing(state) == state

\* faulty variant: the flag is cleared by the last fetch to finish only
FetchFinallyGated(state) ==
  IF Len(inflight) > 1 THEN state ELSE Set(state, [isLoading |-> FALSE])

\* the finally block
FetchFinally(state) == Set(state, [isLoading |-> FALSE])

\* the continuation of the await, run as one callback
FetchContinue(state, op, result) ==
  FetchFinally(IF result.kind = "ok" THEN FetchTry(state, op, result)
               ELSE FetchCatch(state, result))

\* whether the promise returned by the fetch is rejected
FetchRejects(result) == result.kind # "ok" /\ CatchThrows(result)

RemoveAt(seq, i) == SubSeq(seq, 1, i - 1) \o SubSeq(seq, i + 1, Len(seq))

fetchUsers ==
  /\ Len(inflight) < MaxInFlight
  /\ store' = FetchStart(store)
  /\ inflight' = Append(inflight, [op |-> "fetchUsers", userId |-> Null])
  /\ last' = <<"fetchUsers", "start">>
  /\ UNCHANGED <<auth, conn, listeners, emitted, initCalls, requested, statsVars>>

fetchMessages(userId) ==
  /\ Len(inflight) < MaxInFlight
  /\ store' = FetchStart(store)
  /\ inflight' = Append(inflight, [op |-> "fetchMessages", userId |-> userId])
  /\ requested' = userId
  /\ last' = <<"fetchMessages", "start">>
  /\ UNCHANGED <<auth, conn, listeners, emitted, initCalls, statsVars>>

\* the HTTP request at position i settles and the fetch runs to its end
HttpSettles(i, result) ==
  /\ i \in DOMAIN inflight
  /\ result \in Settlements(inflight[i])
  /\ store' = FetchContinue(store, inflight[i].op, result)
  /\ inflight' = RemoveAt(inflight, i)
  /\ last' = <<inflight[i].op, IF FetchRejects(result) THEN "rejected" ELSE "resolved">>
  /\ UNCHANGED <<auth, conn, listeners, emitted, initCalls, requested, statsVars>>


(***************************************************************************)
(* The statistics controller.                                              *)
(***************************************************************************)
Artists == {"a1", "a2"}
Missing == "missing"                 \* a document without an artist field
ArtistValues == Artists \cup {Missing}
DbErrors == {"MongoNetworkError", "MongoServerError"}

\* the elements of the array handed to Promise.all, in order
ReadOrder == <<"countSongs", "countAlbums", "countUsers", "aggregate">>
ReadNames == SetOf(ReadOrder)

\* Model.countDocuments()
CountDocuments(coll) == Len(coll)

\* { $unionWith: { coll: "albums", pipeline: [] } }
UnionWith(stream, coll) == stream \o coll

\* { $group: { _id: "$artist" } }: one group per distinct value of the
\* expression; a missing field evaluates to null
GroupId(artist) == IF artist = Missing THEN Null ELSE artist

Group(stream) == {GroupId(stream[i]) : i \in DOMAIN stream}

\* { $count: "count" }: one document holding the number of inputs, and no
\* document at all when there is no input
Count(groups) ==
  IF groups = {} THEN <<>> ELSE <<[count |-> Cardinality(groups)]>>

\* Song.aggregate([...])
Aggregate(songColl, albumColl) == Count(Group(UnionWith(songColl, albumColl)))

\* uniqueArtists[0]?.count || 0
TotalArtists(uniqueArtists) ==
  IF uniqueArtists = <<>> THEN 0
  ELSE IF uniqueArtists[1].count = 0 THEN 0 ELSE uniqueArtists[1].count

ReadInit == [state |-> "idle", count |-> 0, docs |-> <<>>, error |-> Null, issued |-> 0]

\* a read is handed to the driver
Issue(read) == [read EXCEPT !.state = "pending", !.issued = @ + 1]

\* what a read yields against the collections as they are when it runs
Fulfil(read, name, songColl, albumColl, userCount) ==
  [read EXCEPT !.state = "fulfilled",
               !.count = CASE name = "countSongs" -> CountDocuments(songColl)
                           [] name = "countAlbums" -> CountDocuments(albumColl)
                           [] name = "countUsers" -> userCount
                           [] OTHER -> 0,
               !.docs = IF name = "aggregate" THEN Aggregate(songColl, albumColl)
                        ELSE <<>>]

Reject(read, error) == [read EXCEPT !.state = "rejected", !.error = error]

\* faulty variant: the await resumes on the first fulfilment
AnyFulfilled(rs) == \E r \in ReadNames : rs[r].state = "fulfilled"

\* Promise.all fulfils when every element has fulfilled
AllFulfilled(rs) == \A r \in ReadNames : rs[r].state = "fulfilled"

\* faulty variant: the catch block swallows the error
CatchSwallowed(calls, error) == calls

\* the catch block: next(error)
Catch(calls, error) == Append(calls, error)

\* the destructuring at line 8 and the body built at lines 32-37
StatsBody(rs) ==
  [totalAlbums |-> rs["countAlbums"].count,
   totalSongs |-> rs["countSongs"].count,
   totalUsers |-> rs["countUsers"].count,
   totalArtists |-> TotalArtists(rs["aggregate"].docs)]

\* getStats up to its await: the four reads are created and handed to
\* Promise.all in one synchronous step
getStats ==
  /\ pc = "idle"
  /\ reads' = [r \in ReadNames |-> Issue(reads[r])]
  /\ pc' = "awaiting"
  /\ UNCHANGED <<songs, albums, userDocs, resCalls, nextCalls, chatVars>>

\* read r fulfils; when it is the last one, the await resumes and responds
ReadFulfils(r) ==
  /\ reads[r].state = "pending"
  /\ reads' = [reads EXCEPT ![r] = Fulfil(@, r, songs, albums, userDocs)]
  /\ IF pc = "awaiting" /\ AllFulfilled(reads')
       THEN /\ resCalls' = Append(resCalls, [status |-> 200, body |-> StatsBody(reads')])
            /\ pc' = "responded"
            /\ UNCHANGED nextCalls
       ELSE UNCHANGED <<pc, resCalls, nextCalls>>
  /\ UNCHANGED <<songs, albums, userDocs, chatVars>>

\* read r rejects; Promise.all rejects with the first rejection, the await
\* throws it and the catch block forwards it
ReadRejects(r, error) ==
  /\ reads[r].state = "pending"
  /\ reads' = [reads EXCEPT ![r] = Reject(@, error)]
  /\ IF pc = "awaiting"
       THEN /\ nextCalls' = Catch(nextCalls, error)
            /\ pc' = "forwarded"
            /\ UNCHANGED resCalls
       ELSE UNCHANGED <<pc, resCalls, nextCalls>>
  /\ UNCHANGED <<songs, albums, userDocs, chatVars>>

(***************************************************************************)
(* Initial states and specifications.                                      *)
(***************************************************************************)
ChatInit ==
  /\ store = StoreInit
  /\ auth = Null
  /\ conn = SocketInit
  /\ listeners = [e \in Events |-> 0]
  /\ emitted = <<>>
  /\ inflight = <<>>
  /\ initCalls = <<>>
  /\ requested = Null
  /\ last = <<"init", "init">>

HandlerInit ==
  /\ reads = [r \in ReadNames |-> ReadInit]
  /\ pc = "idle"
  /\ resCalls = <<>>
  /\ nextCalls = <<>>

Init ==
  /\ ChatInit
  /\ HandlerInit
  /\ songs = <<>>
  /\ albums = <<>>
  /\ userDocs = 0

\* the socket's life cycle
Lifecycle ==
  \/ \E u \in UserIds : initSocket(u)
  \/ disconnectSocket
  \/ ConnectEstablished
  \/ ConnectError
  \/ ConnectionLost
  \/ Reconnect

MessageEvents == {"receive_message", "message_sent"}
PresenceEvents == Events \ MessageEvents

\* the store driven through its socket: connection, messages, sending
Next ==
  \/ Lifecycle
  \/ \E ev \in MessageEvents : \E p \in Payloads(ev) : Deliver(ev, p)
  \/ \E r, s \in UserIds : \E c \in Contents : r # s /\ sendMessage(r, s, c)
  \/ \E u \in UserIds \cup {Null} : setSelectedUser(u)

Spec == Init /\ [][Next]_vars

\* the store driven through its socket: presence and activities
PresenceNext ==
  \/ Lifecycle
  \/ \E ev \in PresenceEvents : \E p \in Payloads(ev) : Deliver(ev, p)

PresenceSpec == Init /\ [][PresenceNext]_vars

\* some request in flight is answered
HttpResponse ==
  \E i \in DOMAIN inflight : \E result \in Settlements(inflight[i]) : HttpSettles(i, result)

\* the store's HTTP fetches alone, overlapping up to MaxInFlight
FetchNext ==
  \/ fetchUsers
  \/ \E u \in UserIds : fetchMessages(u)
  \/ HttpResponse

FetchSpec == Init /\ [][FetchNext]_vars

\* every HTTP request is eventually answered
FetchFairSpec == FetchSpec /\ WF_vars(HttpResponse)

\* some request in flight is answered with a 2xx response
HttpSucceeds ==
  \E i \in DOMAIN inflight :
    \E result \in {r \in Settlements(inflight[i]) : r.kind = "ok"} : HttpSettles(i, result)

\* overlapping fetches all of which succeed
FetchOkNext ==
  \/ fetchUsers
  \/ \E u \in UserIds : fetchMessages(u)
  \/ HttpSucceeds

FetchOkSpec == Init /\ [][FetchOkNext]_vars

\* the store's HTTP fetches, with the socket live and messages arriving
HttpNext ==
  \/ FetchNext
  \/ Lifecycle
  \/ \E ev \in MessageEvents : \E p \in Payloads(ev) : Deliver(ev, p)

HttpSpec == Init /\ [][HttpNext]_vars

\* one payload for each inbound event, and one conversation partner
SamplePayloads(ev) ==
  CASE ev = "users_online" -> {<<"u1", "u2">>}
    [] ev = "activities" -> {<< <<"u1", "Idle">> >>}
    [] ev \in {"user_connected", "user_disconnected"} -> {"u1"}
    [] ev \in {"receive_message", "message_sent"} -> {"m2"}
    [] ev = "activity_updated" -> {[userId |-> "u1", activity |-> "Playing"]}

SamplePeers == {"u1"}

\* a whole session: the socket's life cycle, every inbound event, and the
\* fetch of a conversation
SessionNext ==
  \/ Lifecycle
  \/ \E ev \in Events : \E p \in SamplePayloads(ev) : Deliver(ev, p)
  \/ \E u \in SamplePeers : fetchMessages(u)
  \/ HttpResponse

SessionSpec == Init /\ [][SessionNext]_vars

\* one getStats request against collections that stay as they are
StatsInit ==
  /\ ChatInit
  /\ HandlerInit
  /\ songs \in SeqsUpTo(ArtistValues, MaxDocs)
  /\ albums \in SeqsUpTo(ArtistValues, MaxDocs)
  /\ userDocs \in 0..MaxUserDocs

StatsNext ==
  \/ getStats
  \/ \E r \in ReadNames : ReadFulfils(r)
  \/ \E r \in ReadNames : \E e \in DbErrors : ReadRejects(r, e)

StatsSpec == StatsInit /\ [][StatsNext]_vars

\* another client inserts a document while the request's reads are running
InsertDoc(coll, artist) ==
  /\ pc = "awaiting"
  /\ IF coll = "songs"
       THEN Len(songs) < MaxDocs /\ songs' = Append(songs, artist) /\ UNCHANGED albums
       ELSE Len(albums) < MaxDocs /\ albums' = Append(albums, artist) /\ UNCHANGED songs
  /\ UNCHANGED <<userDocs, reads, pc, resCalls, nextCalls, chatVars>>

\* another client deletes a document while the request's reads are running
DeleteDoc(coll, i) ==
  /\ pc = "awaiting"
  /\ IF coll = "songs"
       THEN i \in DOMAIN songs /\ songs' = RemoveAt(songs, i) /\ UNCHANGED albums
       ELSE i \in DOMAIN albums /\ albums' = RemoveAt(albums, i) /\ UNCHANGED songs
  /\ UNCHANGED <<userDocs, reads, pc, resCalls, nextCalls, chatVars>>

\* one getStats request while other clients write to the collections
StatsWritersNext ==
  \/ StatsNext
  \/ \E coll \in {"songs", "albums"} : \E a \in ArtistValues : InsertDoc(coll, a)
  \/ \E coll \in {"songs", "albums"} : \E i \in 1..MaxDocs : DeleteDoc(coll, i)

StatsWritersSpec == StatsInit /\ [][StatsWritersNext]_vars


(***************************************************************************)
(* Properties of the chat store.                                           *)
(***************************************************************************)
NumEmitted(event) == Len(SelectSeq(emitted, LAMBDA e : e[1] = event))

\* C1: initSocket is idempotent while connected: a call made while
\* isConnected is true, with any userId, connects nothing, emits nothing,
\* registers no listener, leaves socket.auth and every store field as they
\* were; so the user_connected emissions number exactly the calls that found
\* the store disconnected, and two calls in a row emit once.
C1_InitSocketIdempotent ==
  [][\A u \in UserIds :
       (store.isConnected /\ initSocket(u)) =>
          /\ UNCHANGED <<store, auth, conn, listeners, emitted, inflight>>
          /\ NumEmitted("user_connected")' = NumEmitted("user_connected")]_vars

C1_Witness ==
  /\ last = <<"initSocket", "noop">>
  /\ store.isConnected
  /\ NumEmitted("user_connected") = 1

\* C2: every delivered receive_message or message_sent event lengthens
\* messages by exactly one, whatever connects and disconnects came before.
C2_OneAppendPerDelivery ==
  [][\A ev \in MessageEvents : \A m \in Msgs :
       Deliver(ev, m) => Len(store'.messages) = Len(store.messages) + 1]_vars

\* C3: isConnected is true only while the transport's connection stands:
\* once the handshake has had its outcome, isConnected implies an open
\* connection (not a refused, rejected or dropped one).
C3_ConnectedOnlyWhileOpen ==
  store.isConnected /\ conn # "connecting" => conn = "open"

\* C4: every failed GET of fetchUsers or fetchMessages, with or without a
\* server response, is caught: the fetch does not throw, isLoading ends
\* false, error holds the failure's message (the server's when there is a
\* response), and the fetched field keeps its value.
C4_FailuresCaught ==
  [][\A i \in DOMAIN inflight : \A result \in Settlements(inflight[i]) :
       (result.kind # "ok" /\ HttpSettles(i, result)) =>
          /\ last'[2] = "resolved"
          /\ ~store'.isLoading
          /\ store'.error = IF result.kind = "http_error"
                              THEN result.serverMessage ELSE result.message
          /\ store'.users = store.users
          /\ store'.messages = store.messages]_vars

\* C5: a fetch that settles, by success or by any failure, leaves isLoading
\* false, so isLoading is false whenever no fetch is in flight; and when
\* every request is eventually answered, a set flag is eventually cleared.
C5_LoadingCleared ==
  /\ [](inflight = <<>> => ~store.isLoading)
  /\ [][\A i \in DOMAIN inflight : \A result \in Settlements(inflight[i]) :
          HttpSettles(i, result) => ~store'.isLoading]_vars
  /\ (store.isLoading ~> ~store.isLoading)

C5_Witness ==
  /\ last = <<"fetchUsers", "rejected">>
  /\ inflight = <<>>
  /\ ~store.isLoading


\* the store fields other than f keep their values in the step
OnlyFieldChanged(f) == \A g \in DOMAIN store \ {f} : store'[g] = store[g]

\* the step delivers event ev
Delivers(ev) == last'[1] = "deliver" /\ last'[2] = ev /\ Deliver(ev, last'[3])

\* the last step delivered event ev
Delivered(ev) == last[1] = "deliver" /\ last[2] = ev

\* C9: presence. users_online carrying the ids S leaves onlineUsers = S;
\* user_disconnected(u) removes u and nothing else; user_connected(u) adds u
\* and nothing else; whatever connects and disconnects came before, and
\* with no other store field changed.
C9_PresenceTracking ==
  [][/\ Delivers("users_online") =>
          /\ \A u \in UserIds :
               u \in store'.onlineUsers <=> \E i \in DOMAIN last'[3] : last'[3][i] = u
          /\ store'.onlineUsers \subseteq UserIds
          /\ OnlyFieldChanged("onlineUsers")
     /\ Delivers("user_disconnected") =>
          /\ store'.onlineUsers = store.onlineUsers \ {last'[3]}
          /\ OnlyFieldChanged("onlineUsers")
     /\ Delivers("user_connected") =>
          /\ store'.onlineUsers = store.onlineUsers \cup {last'[3]}
          /\ OnlyFieldChanged("onlineUsers")]_vars

C9_Witness ==
  /\ Delivered("user_disconnected")
  /\ last[3] = "u1"
  /\ listeners["user_disconnected"] = 2
  /\ store.isConnected
  /\ store.onlineUsers = {"u2"}

\* the index of the last pair of P whose key is k
LastIndexOf(P, k) ==
  CHOOSE i \in DOMAIN P : P[i][1] = k /\ \A j \in DOMAIN P : P[j][1] = k => j <= i

\* C10: activities. An activities event carrying the pairs P leaves
\* userActivities with exactly the keys of P, each mapped as its last pair
\* in P says; activity_updated({userId: x, activity: a}) maps x to a and
\* leaves every other key and its value as it was, x a key before or not.
C10_ActivityTracking ==
  [][/\ Delivers("activities") =>
          LET P == last'[3]
          IN /\ DOMAIN store'.userActivities = {P[i][1] : i \in DOMAIN P}
             /\ \A k \in DOMAIN store'.userActivities :
                  store'.userActivities[k] = P[LastIndexOf(P, k)][2]
     /\ Delivers("activity_updated") =>
          LET upd == last'[3]
          IN /\ DOMAIN store'.userActivities =
                  DOMAIN store.userActivities \cup {upd.userId}
             /\ store'.userActivities[upd.userId] = upd.activity
             /\ \A k \in DOMAIN store.userActivities \ {upd.userId} :
                  store'.userActivities[k] = store.userActivities[k]]_vars

C10_Witness ==
  /\ Delivered("activity_updated")
  /\ last[3] = [userId |-> "u1", activity |-> "Playing"]
  /\ DOMAIN store.userActivities = {"u1", "u2"}
  /\ store.userActivities["u1"] = "Playing"
  /\ store.userActivities["u2"] = "Idle"

(***************************************************************************)
(* Properties of the statistics controller.                                *)
(***************************************************************************)
\* the artist values the documents of both collections actually carry
DistinctArtists == (SetOf(songs) \cup SetOf(albums)) \ {Missing}

\* C6: with the collections held fixed, the response has
\* totalArtists <= totalSongs + totalAlbums, totalArtists is the number of
\* distinct artist values over both collections (documents may lack the
\* field, artists may be shared), and it is 0 when both are empty.
C6_TotalArtists ==
  \A i \in DOMAIN resCalls :
    LET body == resCalls[i].body
    IN /\ body.totalArtists <= body.totalSongs + body.totalAlbums
       /\ body.totalArtists = Cardinality(DistinctArtists)
       /\ (songs = <<>> /\ albums = <<>>) => body.totalArtists = 0

Settled(r) == reads[r].state \in {"fulfilled", "rejected"}

\* C7: the four reads are all issued before any of them completes, so one
\* that never completes holds back none of the others; and the response is
\* sent only once all four have completed.
C7_ConcurrentReads ==
  /\ (\E r \in ReadNames : reads[r].state # "idle") =>
       \A r \in ReadNames : reads[r].issued = 1
  /\ resCalls # <<>> => \A r \in ReadNames : reads[r].state = "fulfilled"

C7_Witness ==
  /\ reads["countSongs"].state = "pending"
  /\ \A r \in ReadNames \ {"countSongs"} : reads[r].state = "fulfilled"
  /\ resCalls = <<>>

\* C8: when a read fails its error goes to next, unchanged and once, and
\* no 200 response is sent; when all four succeed one 200 response is sent
\* and next is not called; no read is issued twice; every request ends in
\* exactly one of the two.
C8_ErrorForwarding ==
  /\ Len(resCalls) + Len(nextCalls) <= 1
  /\ (\E r \in ReadNames : reads[r].state = "rejected") =>
       /\ resCalls = <<>>
       /\ Len(nextCalls) = 1
       /\ \E r \in ReadNames :
            reads[r].state = "rejected" /\ nextCalls[1] = reads[r].error
  /\ (\A r \in ReadNames : reads[r].state = "fulfilled") =>
       /\ Len(resCalls) = 1
       /\ resCalls[1].status = 200
       /\ nextCalls = <<>>
  /\ \A r \in ReadNames : reads[r].issued <= 1
  /\ (\A r \in ReadNames : Settled(r)) => Len(resCalls) + Len(nextCalls) = 1

C8_Witness ==
  /\ \A r \in ReadNames : Settled(r)
  /\ Cardinality({r \in ReadNames : reads[r].state = "rejected"}) = 2
  /\ Len(nextCalls) = 1


(***************************************************************************)
(* Further properties of the chat store.                                   *)
(***************************************************************************)
\* C11: sendMessage with no socket handle emits nothing and does not throw;
\* with one it emits exactly one send_message carrying receiverId, senderId
\* and content, and changes no store field: messages changes only when an
\* inbound event (the message_sent echo among them) is delivered.
C11_SendMessageEmitsOnly ==
  [][/\ \A r, s \in UserIds : \A c \in Contents :
          sendMessage(r, s, c) =>
            /\ store' = store
            /\ IF store.socket = Null
                 THEN emitted' = emitted
                 ELSE emitted' = Append(emitted, <<"send_message", <<r, s, c>> >>)
            /\ UNCHANGED <<auth, conn, listeners, inflight>>
     /\ store'.messages # store.messages =>
          last'[1] = "deliver" /\ last'[2] \in MessageEvents]_vars

C11_Witness ==
  /\ last = <<"sendMessage", "emit">>
  /\ emitted[Len(emitted)] = <<"send_message", <<"u2", "u1", "hi">> >>
  /\ store.isConnected
  /\ store.messages = <<>>

\* C13: a connecting initSocket sets socket.auth, opens the connection,
\* emits user_connected(userId) once, registers the seven listeners and only
\* then sets isConnected, in this order; so whenever isConnected is true
\* every inbound event has a listener and socket.auth is the userId of the
\* call that connected.
C13_InitSocketOrder ==
  store.isConnected =>
    /\ \A e \in Events : listeners[e] >= 1
    /\ Len(initCalls) = 11
    /\ initCalls[1] = Call("auth", Null, auth)
    /\ initCalls[2] = Call("connect", Null, Null)
    /\ initCalls[3] = Call("emit", "user_connected", auth)
    /\ \A i \in 4..10 : initCalls[i].call = "on"
    /\ {initCalls[i].event : i \in 4..10} = Events
    /\ initCalls[11] = Call("set", Null, "isConnected")
    /\ Len(SelectSeq(initCalls, LAMBDA c : c.call = "emit")) = 1
    /\ emitted # <<>>
    /\ LET connects == SelectSeq(emitted, LAMBDA e : e[1] = "user_connected")
       IN connects[Len(connects)] = <<"user_connected", <<auth>> >>

C13_Witness ==
  /\ store.isConnected
  /\ last = <<"initSocket", "connect">>
  /\ auth = "u2"
  /\ emitted[1] = <<"user_connected", <<"u1">> >>
  /\ listeners["activity_updated"] = 2

\* C15: disconnectSocket while connected closes the connection and sets
\* isConnected to false, leaving the registered listeners and every other
\* store field as they were; while disconnected it does nothing at all.
C15_DisconnectFrame ==
  [][disconnectSocket =>
       IF store.isConnected
         THEN /\ conn' = "closed"
              /\ ~store'.isConnected
              /\ OnlyFieldChanged("isConnected")
              /\ UNCHANGED <<listeners, auth, emitted, inflight>>
         ELSE UNCHANGED <<store, conn, listeners, auth, emitted, inflight>>]_vars

C15_Witness ==
  /\ last = <<"disconnectSocket", "disconnect">>
  /\ conn = "closed"
  /\ ~store.isConnected
  /\ store.messages # <<>>
  /\ store.selectedUser # Null
  /\ listeners["receive_message"] = 1


\* C12: one socket handle for the life of the process: the store's socket
\* field is the handle created at module load in every reachable state,
\* never null, never replaced by initSocket, disconnectSocket, a fetch or a
\* listener.
C12_OneSocketHandle ==
  /\ store.socket = StoreInit.socket
  /\ store.socket # Null

C12_Witness ==
  /\ listeners["users_online"] = 2
  /\ last = <<"disconnectSocket", "disconnect">>
  /\ store.messages # <<>>
  /\ store.onlineUsers # {}
  /\ store.socket = "socket"

\* C14: the listeners run only while the store is connected: from a state
\* where isConnected is false no inbound event is delivered, onlineUsers and
\* userActivities do not change, and messages changes only by a fetchMessages
\* that completes.
C14_NoEventsWhileDisconnected ==
  [][~store.isConnected =>
       /\ last'[1] # "deliver"
       /\ store'.onlineUsers = store.onlineUsers
       /\ store'.userActivities = store.userActivities
       /\ store'.messages # store.messages =>
            last' = <<"fetchMessages", "resolved">>]_vars

C14_Witness ==
  /\ ~store.isConnected
  /\ \A e \in Events : listeners[e] >= 1
  /\ last = <<"fetchMessages", "resolved">>
  /\ store.messages = History("u1")
  /\ store.onlineUsers # {}


\* C16: totalArtists <= totalSongs + totalAlbums in every response, also
\* when other clients insert or delete Song or Album documents while the
\* four reads are running.
C16_BoundUnderWrites ==
  \A i \in DOMAIN resCalls :
    resCalls[i].body.totalArtists <=
      resCalls[i].body.totalSongs + resCalls[i].body.totalAlbums


\* C17: the loading flag is not a mutual-exclusion gate: whenever one of
\* several overlapping fetches completes, isLoading becomes false although
\* another fetch is still in flight.
C17_LoadingNotAGate ==
  [][(Len(inflight') < Len(inflight) /\ inflight' # <<>>) => ~store'.isLoading]_vars

\* a fetch has completed, another is still in flight, and the flag is false
C17_Witness ==
  /\ inflight # <<>>
  /\ ~store.isLoading
  /\ last[2] \in {"resolved", "rejected"}


\* C18: when overlapping fetchMessages calls all succeed then, once every
\* call has completed, messages holds the history of the peer requested
\* most recently, whatever the order of the responses.
C18_LatestPeerWins ==
  (/\ requested # Null
   /\ \A i \in DOMAIN inflight : inflight[i].op # "fetchMessages")
    => store.messages = History(requested)


\* the step is the completion of a fetchMessages call
CompletesFetchMessages ==
  \E i \in DOMAIN inflight :
    /\ inflight[i].op = "fetchMessages"
    /\ \E result \in Settlements(inflight[i]) : HttpSettles(i, result)

\* the step is the completion of a fetchMessages call with a 2xx response
CompletesFetchMessagesOk ==
  \E i \in DOMAIN inflight :
    /\ inflight[i].op = "fetchMessages"
    /\ \E result \in {r \in Settlements(inflight[i]) : r.kind = "ok"} :
         HttpSettles(i, result)

PrefixOf(a, b) == Len(a) <= Len(b) /\ SubSeq(b, 1, Len(a)) = a

\* C19: messages is append-only between fetches and no pushed message is
\* lost: every step other than a successful fetchMessages completion keeps
\* the old messages as a prefix of the new, and a message appended by
\* receive_message or message_sent while a fetchMessages call is in flight
\* is still in messages when that call completes.
C19_NoPushedMessageLost ==
  [][/\ ~CompletesFetchMessagesOk => PrefixOf(store.messages, store'.messages)
     /\ (/\ last[1] = "deliver"
         /\ last[2] \in MessageEvents
         /\ last[3] \in SetOf(store.messages)
         /\ CompletesFetchMessages)
          => last[3] \in SetOf(store'.messages)]_vars


=============================================================================
